---- MODULE Spec2Model ----
(***************************************************************************)
(* Model of the RA02 LoRa driver bindings (bindings/ra02.py) together with *)
(* the shared library they call (spi.h, timeout.h, ra02.h).  The Python    *)
(* layer is translated from its source; the C functions behind the FFI     *)
(* boundary are modelled from the design document (sections 4 and 7).      *)
(***************************************************************************)
EXTENDS Integers, Sequences, FiniteSets, TLC

VARIABLES
    dynlib,     \* RA02_DYNLIB.dynlib is loaded (DynamicLibrary.dynlib # None)
    now,        \* monotonic clock, milliseconds
    spi,        \* spi_t behind Spi.spi: [open]
    ra02,       \* ra02_t behind Ra02.ra02: [spi (transport bound), irq_flags]
    chip,       \* the transceiver: [mode, irq, fifo_rx, fifo_tx, cfg]
    timeout,    \* timeout_t behind Timeout.timeout: [start, duration]
    hist,       \* history of the calls made on the Timeout: [at, D, forced]
    pc,         \* "idle", or "recv" while ra02_recv is polling
    last        \* what the last binding call gave its caller

vars == <<dynlib, now, spi, ra02, chip, timeout, hist, pc, last>>

-----------------------------------------------------------------------------
(* Bounds of the model                                                     *)

MaxErr == 20        \* result codes probed: -MaxNeg .. MaxErr, and ProbeCode
MaxNeg == 2
ProbeCode == 99
MaxShort == 2       \* short payload lengths 0 .. MaxShort
MaxOver == 1        \* oversize payload lengths MAX_PAYLOAD+1 .. MAX_PAYLOAD+MaxOver
MaxSeed == 1        \* payload contents: Pattern(1 .. MaxSeed, n)
MaxDur == 2         \* timeout durations 0 .. MaxDur
MaxTicks == 4       \* the clock runs from BootMs to BootMs + MaxTicks

MAX_PAYLOAD == 64

BootMs == MaxDur + 1
MaxNow == BootMs + MaxTicks

Min(a, b) == IF a < b THEN a ELSE b

Pattern(seed, n) == [i \in 1..n |-> (seed + i) % 256]

PayloadLens == (0..MaxShort) \cup {MAX_PAYLOAD} \cup ((MAX_PAYLOAD + 1)..(MAX_PAYLOAD + MaxOver))

Payloads == {Pattern(s, n) : s \in 1..MaxSeed, n \in PayloadLens}

-----------------------------------------------------------------------------
(* Error taxonomy: error_t of error.h as mirrored by the bindings          *)

E_OK == 0
E_FAILED == 1
E_NULL == 3
E_INVALID == 4
E_TIMEOUT == 6
E_CORRUPT == 12
E_OUTOFBOUNDS == 18

EXCEPTIONS_swapped ==
    [c \in 1..18 |->
        CASE c = 1 -> "Failed"          [] c = 2 -> "Assert"
          [] c = 3 -> "Null"            [] c = 4 -> "Invalid"
          [] c = 5 -> "NotImplemented"  [] c = 6 -> "Corrupt"
          [] c = 7 -> "NoResponse"      [] c = 8 -> "Overflow"
          [] c = 9 -> "Underflow"       [] c = 10 -> "Again"
          [] c = 11 -> "Done"           [] c = 12 -> "Timeout"
          [] c = 13 -> "Busy"           [] c = 14 -> "NotFound"
          [] c = 15 -> "Cancelled"      [] c = 16 -> "Empty"
          [] c = 17 -> "NoMemory"       [] c = 18 -> "OutOfBounds"]

EXCEPTIONS ==
    [c \in 1..18 |->
        CASE c = 1 -> "Failed"          [] c = 2 -> "Assert"
          [] c = 3 -> "Null"            [] c = 4 -> "Invalid"
          [] c = 5 -> "NotImplemented"  [] c = 6 -> "Timeout"
          [] c = 7 -> "NoResponse"      [] c = 8 -> "Overflow"
          [] c = 9 -> "Underflow"       [] c = 10 -> "Again"
          [] c = 11 -> "Done"           [] c = 12 -> "Corrupt"
          [] c = 13 -> "Busy"           [] c = 14 -> "NotFound"
          [] c = 15 -> "Cancelled"      [] c = 16 -> "Empty"
          [] c = 17 -> "NoMemory"       [] c = 18 -> "OutOfBounds"]

\* error_check with the membership test dropped: an unlisted code passes.
error_check_lenient(err) ==
    IF err \in DOMAIN EXCEPTIONS THEN EXCEPTIONS[err] ELSE "ok"

\* error_check(err): "ok" when nothing is raised, else the exception raised.
error_check(err) ==
    IF err # 0
    THEN IF err \in DOMAIN EXCEPTIONS
         THEN EXCEPTIONS[err]
         ELSE "InvalidErrorCode"
    ELSE "ok"

-----------------------------------------------------------------------------
(* ctypes conversions at the call boundary.  A Python int x is held as     *)
(* [hi, lo] with x = hi * 2^32 + lo and 0 <= lo < 2^32; ctypes integer     *)
(* types keep the low bits of their width and raise nothing.               *)

Py(hi, lo) == [hi |-> hi, lo |-> lo]

c_uint8(x) == x.lo % 256

c_uint32(x) == x.lo

\* len() of a bytes object is far below 2^64: c_size_t keeps it.
c_size_t(n) == n

\* durations of the model are far below 2^64: c_uint64 keeps them.
c_uint64(n) == n

-----------------------------------------------------------------------------
(* The shared library: spi.h                                               *)
(* A library function takes the world w = [spi, ra02, chip] and gives      *)
(* [code, io, w, value]: its error_t, whether it touched the bus, the      *)
(* world it leaves, and what it wrote through its out-pointers.            *)

Ret(code, io, w, value) == [code |-> code, io |-> io, w |-> w, value |-> value]

\* spi_cfg_default fills the caller's spi_cfg_t and cannot fail.
spi_cfg_default == E_OK

\* open(path, config): Invalid when the device cannot be opened.
spi_init(w, fault) ==
    IF fault
    THEN Ret(E_INVALID, FALSE, w, <<>>)
    ELSE Ret(E_OK, FALSE, [w EXCEPT !.spi.open = TRUE], <<>>)

\* close: releases the descriptor; a no-op on a closed transport.
spi_deinit(w) == Ret(E_OK, FALSE, [w EXCEPT !.spi.open = FALSE], <<>>)

\* What the device shifts out while tx is shifted in: as many bytes as tx.
Miso(tx) == [i \in 1..Len(tx) |-> 255 - tx[i]]

\* transceive: Failed on a bus I/O error, else exactly Len(tx) bytes back.
spi_transcieve(w, tx, fault) ==
    IF ~w.spi.open \/ fault
    THEN Ret(E_FAILED, w.spi.open, w, <<>>)
    ELSE Ret(E_OK, TRUE, w, Miso(tx))

-----------------------------------------------------------------------------
(* The shared library: timeout.h                                           *)

timeout_start(t, ms, clock) == [start |-> clock, duration |-> ms]

timeout_restart(t, clock) == [t EXCEPT !.start = clock]

timeout_is_expired(t, clock) ==
    t.duration # 0 /\ clock - t.start >= t.duration

\* expire: leaves (start, duration) such that is_expired holds from now on;
\* an inert timeout gets the shortest duration.
timeout_expire(t, clock) ==
    LET d == IF t.duration = 0 THEN 1 ELSE t.duration
    IN  [start |-> clock - d, duration |-> d]

-----------------------------------------------------------------------------
(* The shared library: ra02.h                                              *)

Setters == {"freq", "power", "sync_word", "baudrate", "bandwidth", "preamble", "sf"}

\* The chip's accepted range of each configuration value, <<lowest, highest>>.
ChipRange ==
    [reg \in Setters |->
        CASE reg = "freq" -> <<137000, 525000>>
          [] reg = "power" -> <<2, 20>>
          [] reg = "sync_word" -> <<1, 255>>
          [] reg = "baudrate" -> <<1200, 300000>>
          [] reg = "bandwidth" -> <<7800, 500000>>
          [] reg = "preamble" -> <<6, 65535>>
          [] reg = "sf" -> <<6, 12>>]

Accepted(reg, v) == ChipRange[reg][1] <= v /\ v <= ChipRange[reg][2]

PowerOnCfg == [reg \in Setters |-> 0]

PowerOnChip ==
    [mode |-> "sleep", irq |-> {}, fifo_rx |-> <<>>, fifo_tx |-> <<>>,
     cfg |-> PowerOnCfg]

\* The code of an operation that needs the bus: Null without a transport,
\* Failed when the exchange fails.
BusCode(w, fault) ==
    IF ~w.ra02.spi THEN E_NULL
    ELSE IF ~w.spi.open \/ fault THEN E_FAILED
    ELSE E_OK

\* Whether such an operation reaches the bus at all.
BusTouched(w) == w.ra02.spi /\ w.spi.open

\* init(transport): binds the transport, resets the chip, enters Standby.
ra02_init(w, fault) ==
    IF ~w.spi.open \/ fault
    THEN Ret(E_FAILED, w.spi.open, w, <<>>)
    ELSE Ret(E_OK, TRUE,
             [w EXCEPT !.ra02 = [spi |-> TRUE, irq_flags |-> {}],
                       !.chip = [PowerOnChip EXCEPT !.mode = "standby"]],
             <<>>)

\* deinit: puts the chip to sleep when it can and drops the binding.
ra02_deinit(w) ==
    Ret(E_OK, BusTouched(w),
        [w EXCEPT !.ra02.spi = FALSE,
                  !.chip.mode = IF BusTouched(w) THEN "sleep" ELSE @],
        <<>>)

\* reset: the hardware reset without rebinding; back to Standby.
ra02_reset(w, fault) ==
    IF BusCode(w, fault) # E_OK
    THEN Ret(BusCode(w, fault), BusTouched(w), w, <<>>)
    ELSE Ret(E_OK, TRUE,
             [w EXCEPT !.ra02.irq_flags = {},
                       !.chip = [PowerOnChip EXCEPT !.mode = "standby"]],
             <<>>)

ra02_sleep(w, fault) ==
    IF BusCode(w, fault) # E_OK
    THEN Ret(BusCode(w, fault), BusTouched(w), w, <<>>)
    ELSE Ret(E_OK, TRUE, [w EXCEPT !.chip.mode = "sleep"], <<>>)

\* A configuration setter: Invalid before any bus I/O when the value is out
\* of the chip's range, else the register write.
ra02_set(w, reg, v, fault) ==
    IF ~Accepted(reg, v)
    THEN Ret(E_INVALID, FALSE, w, <<>>)
    ELSE IF BusCode(w, fault) # E_OK
    THEN Ret(BusCode(w, fault), BusTouched(w), w, <<>>)
    ELSE Ret(E_OK, TRUE, [w EXCEPT !.chip.cfg[reg] = v], <<>>)

ra02_get_power(w, fault) ==
    IF BusCode(w, fault) # E_OK
    THEN Ret(BusCode(w, fault), BusTouched(w), w, <<>>)
    ELSE Ret(E_OK, TRUE, w, <<w.chip.cfg["power"] % 256>>)

ra02_get_rssi(w, rssi, fault) ==
    IF BusCode(w, fault) # E_OK
    THEN Ret(BusCode(w, fault), BusTouched(w), w, <<>>)
    ELSE Ret(E_OK, TRUE, w, <<rssi>>)

\* poll_irq_flags: reads the chip's flags register into the cached byte.
ra02_poll_irq_flags(w, fault) ==
    IF BusCode(w, fault) # E_OK
    THEN Ret(BusCode(w, fault), BusTouched(w), w, <<>>)
    ELSE Ret(E_OK, TRUE, [w EXCEPT !.ra02.irq_flags = w.chip.irq], <<>>)

\* send: OutOfBounds before any bus I/O for an oversize payload; else the
\* payload goes to the transmit buffer, the chip transmits and returns to
\* Standby.
ra02_send(w, buf, size, fault) ==
    IF size > MAX_PAYLOAD
    THEN Ret(E_OUTOFBOUNDS, FALSE, w, <<>>)
    ELSE IF BusCode(w, fault) # E_OK
    THEN Ret(BusCode(w, fault), BusTouched(w), w, <<>>)
    ELSE Ret(E_OK, TRUE,
             [w EXCEPT !.chip.fifo_tx = SubSeq(buf, 1, size),
                       !.chip.mode = "standby",
                       !.chip.irq = {},
                       !.ra02.irq_flags = {"tx_done"}],
             <<>>)

\* recv, step 1: switch to Rx mode.
ra02_recv_enter(w, fault) ==
    IF BusCode(w, fault) # E_OK
    THEN Ret(BusCode(w, fault), BusTouched(w), w, <<>>)
    ELSE Ret(E_OK, TRUE, [w EXCEPT !.chip.mode = "rx", !.chip.irq = {}], <<>>)

\* The caller's buffer of cap bytes after the chip's packet was copied in.
FillBuf(fifo, cap) ==
    [i \in 1..cap |-> IF i <= Len(fifo) THEN fifo[i] ELSE 0]

\* recv, step 2: one iteration of the polling loop.  done is FALSE when the
\* loop goes round again; value is <<buffer, size written back>>.
ra02_recv_poll(w, t, clock, cap) ==
    LET flags == w.chip.irq
        polled == [w EXCEPT !.ra02.irq_flags = flags]
    IN  IF "payload_ready" \in flags
        THEN [done |-> TRUE, code |-> E_OK,
              w |-> [polled EXCEPT !.chip.mode = "standby"],
              buf |-> FillBuf(w.chip.fifo_rx, cap),
              size |-> Len(w.chip.fifo_rx)]
        ELSE IF "crc_error" \in flags
        THEN [done |-> TRUE, code |-> E_CORRUPT, w |-> polled,
              buf |-> FillBuf(<<>>, cap), size |-> cap]
        ELSE IF timeout_is_expired(t, clock)
        THEN [done |-> TRUE, code |-> E_TIMEOUT, w |-> polled,
              buf |-> FillBuf(<<>>, cap), size |-> cap]
        ELSE [done |-> FALSE, code |-> E_OK, w |-> polled,
              buf |-> FillBuf(<<>>, cap), size |-> cap]

-----------------------------------------------------------------------------
(* The bindings: what a call gives its caller                              *)

World == [spi |-> spi, ra02 |-> ra02, chip |-> chip]

SetWorld(w) == spi' = w.spi /\ ra02' = w.ra02 /\ chip' = w.chip

NoArg == <<>>

Outcome(op, arg, called, code, outcome, value, io) ==
    [op |-> op, arg |-> arg, called |-> called, code |-> code,
     outcome |-> outcome, value |-> value, io |-> io,
     buf |-> <<>>, size |-> 0, expired |-> FALSE]

\* DynamicLibrary.__getattr__: the symbol when the library is loaded, else
\* LibraryUninitializedException before any library code runs.
DynamicLibrary_getattr(lib) == lib

Raised(op, arg) ==
    Outcome(op, arg, FALSE, E_OK, "LibraryUninitialized", <<>>, FALSE)

\* error_check(RA02_DYNLIB.f(...)), then the return statement if any.
Checked(op, arg, r) ==
    Outcome(op, arg, TRUE, r.code, error_check(r.code),
            IF error_check(r.code) = "ok" THEN r.value ELSE <<>>, r.io)

\* RA02_DYNLIB.f(...) as a bare statement: the returned code is dropped.
Unchecked(op, arg, r) ==
    Outcome(op, arg, TRUE, r.code, "ok", <<>>, r.io)

\* A call on the caller's thread: the library runs only when it is loaded.
Call(res, r) ==
    /\ pc = "idle"
    /\ IF DynamicLibrary_getattr(dynlib)
       THEN SetWorld(r.w) /\ last' = res
       ELSE UNCHANGED <<spi, ra02, chip>> /\ last' = Raised(res.op, res.arg)
    /\ UNCHANGED <<dynlib, now, timeout, hist, pc>>

-----------------------------------------------------------------------------
(* Initial state: the module imported, Spi(), Ra02() and Timeout() built   *)
(* without arguments, the chip powered on.                                 *)

Init ==
    /\ dynlib = FALSE
    /\ now = BootMs
    /\ spi = [open |-> FALSE]
    /\ ra02 = [spi |-> FALSE, irq_flags |-> {}]
    /\ chip = PowerOnChip
    /\ timeout = [start |-> 0, duration |-> 0]
    /\ hist = [at |-> 0, D |-> 0, forced |-> FALSE, touched |-> FALSE]
    /\ pc = "idle"
    /\ last = Outcome("none", NoArg, FALSE, E_OK, "ok", <<>>, FALSE)

\* ra02.__init__(dynlib_path)
LoadLibrary ==
    /\ pc = "idle"
    /\ dynlib' = TRUE
    /\ last' = Outcome("__init__", NoArg, FALSE, E_OK, "ok", <<>>, FALSE)
    /\ UNCHANGED <<now, spi, ra02, chip, timeout, hist, pc>>

ErrInputs == ((0 - MaxNeg)..MaxErr) \cup {ProbeCode}

\* error_check(err) on a code handed over the boundary
ErrorCheck ==
    \E err \in ErrInputs :
        /\ pc = "idle"
        /\ last' = Outcome("error_check", NoArg, TRUE, err, error_check(err), <<>>, FALSE)
        /\ UNCHANGED <<dynlib, now, spi, ra02, chip, timeout, hist, pc>>

-----------------------------------------------------------------------------
(* class Spi                                                               *)

\* Spi.init: error_check(spi_cfg_default(cfg)); error_check(spi_init(...))
Spi_init ==
    \E fault \in BOOLEAN :
        LET r == IF spi_cfg_default # E_OK
                 THEN Ret(spi_cfg_default, FALSE, World, <<>>)
                 ELSE spi_init(World, fault)
        IN  Call(Checked("Spi.init", NoArg, r), r)

Spi_deinit ==
    LET r == spi_deinit(World)
    IN  Call(Checked("Spi.deinit", NoArg, r), r)

\* Spi.__del__: the deinit that runs when the object is dropped
Spi_del ==
    LET r == spi_deinit(World)
    IN  Call(Checked("Spi.__del__", NoArg, r), r)

TxInputs == {<<>>} \cup {Pattern(s, n) : s \in 1..MaxSeed, n \in 1..MaxShort}

Spi_transceive ==
    \E data \in TxInputs, fault \in BOOLEAN :
        LET r == spi_transcieve(World, data, fault)
        IN  Call(Checked("Spi.transceive", data, r), r)

-----------------------------------------------------------------------------
(* class Ra02                                                              *)

Ra02_init ==
    \E fault \in BOOLEAN :
        LET r == ra02_init(World, fault)
        IN  Call(Checked("Ra02.init", NoArg, r), r)

Ra02_deinit ==
    LET r == ra02_deinit(World)
    IN  Call(Checked("Ra02.deinit", NoArg, r), r)

\* Ra02.__del__: the deinit that runs when the object is dropped
Ra02_del ==
    LET r == ra02_deinit(World)
    IN  Call(Checked("Ra02.__del__", NoArg, r), r)

Ra02_reset ==
    \E fault \in BOOLEAN :
        LET r == ra02_reset(World, fault)
        IN  Call(Checked("reset", NoArg, r), r)

Ra02_sleep ==
    \E fault \in BOOLEAN :
        LET r == ra02_sleep(World, fault)
        IN  Call(Checked("sleep", NoArg, r), r)

Ra02_get_power ==
    \E fault \in BOOLEAN :
        LET r == ra02_get_power(World, fault)
        IN  Call(Checked("get_power", NoArg, r), r)

RssiLevels == {0, 127, 255}

Ra02_get_rssi ==
    \E rssi \in RssiLevels, fault \in BOOLEAN :
        LET r == ra02_get_rssi(World, rssi, fault)
        IN  Call(Checked("get_rssi", NoArg, r), r)

\* Ra02.poll_irq_flags: the call's result is not passed to error_check
Ra02_poll_irq_flags ==
    \E fault \in BOOLEAN :
        LET r == ra02_poll_irq_flags(World, fault)
        IN  Call(Unchecked("poll_irq_flags", NoArg, r), r)

\* The value a setter hands the library: ctypes.c_uint8(sf) for set_sf,
\* ctypes.c_uint32(x) for the six others.
SetterArg(reg, x) == IF reg = "sf" THEN c_uint8(x) ELSE c_uint32(x)

\* The smallest Python int above x that the setter's ctypes type maps to the
\* same value as x.
Wrapped(reg, x) == IF reg = "sf" THEN Py(x.hi, x.lo + 256) ELSE Py(x.hi + 1, x.lo)

\* A Python int is inside the chip's range
InChipRange(reg, x) == x.hi = 0 /\ Accepted(reg, x.lo)

SetterInputs(reg) ==
    LET lo == Py(0, ChipRange[reg][1])
        above == Py(0, ChipRange[reg][2] + 1)
    IN  {lo, above, Wrapped(reg, lo), Py(0, 0)}

\* set_freq, set_power, set_sync_word, set_baudrate, set_bandwidth,
\* set_preamble, set_sf
Ra02_set ==
    \E reg \in Setters :
        \E x \in SetterInputs(reg), fault \in BOOLEAN :
            LET r == ra02_set(World, reg, SetterArg(reg, x), fault)
            IN  Call(Checked(reg, x, r), r)

\* An oversize payload cut to MAX_PAYLOAD bytes before it is handed over.
Ra02_send_data_cut(data) == SubSeq(data, 1, Min(Len(data), MAX_PAYLOAD))

\* buf = (ctypes.c_uint8 * len(data))(*data): the bytes, as many as given
Ra02_send_data(data) == data

Ra02_send ==
    \E data \in Payloads, fault \in BOOLEAN :
        LET buf == Ra02_send_data(data)
            r == ra02_send(World, buf, c_size_t(Len(buf)), fault)
        IN  Call(Checked("send", data, r), r)

-----------------------------------------------------------------------------
(* class Timeout                                                           *)

\* Timeout.start with the duration one millisecond short.
Timeout_start_short(t, duration, clock) ==
    timeout_start(t, IF duration > 0 THEN c_uint64(duration) - 1 ELSE 0, clock)

Timeout_start(t, duration, clock) == timeout_start(t, c_uint64(duration), clock)

\* Timeout.restart bound to the wrong symbol, timeout_expire.
Timeout_restart_expires(t, clock) == timeout_expire(t, clock)

Timeout_restart(t, clock) == timeout_restart(t, clock)

\* restype is ctypes.c_bool: the C bool as a Python bool
Timeout_is_expired(t, clock) == timeout_is_expired(t, clock)

\* Timeout.expire bound to the wrong symbol, timeout_restart.
Timeout_expire_restarts(t, clock) == timeout_restart(t, clock)

Timeout_expire(t, clock) == timeout_expire(t, clock)

Done(op, arg) == Outcome(op, arg, TRUE, E_OK, "ok", <<>>, FALSE)

\* A call on the Timeout: none of timeout.h returns an error_t.
TimeoutCall(op, arg, t, h) ==
    /\ IF DynamicLibrary_getattr(dynlib)
       THEN timeout' = t /\ hist' = h /\ last' = Done(op, arg)
       ELSE UNCHANGED <<timeout, hist>> /\ last' = Raised(op, arg)
    /\ UNCHANGED <<dynlib, now, spi, ra02, chip, pc>>

Durations == 0..MaxDur

\* Timeout(duration): a zeroed timeout_t, started only when duration is not 0
Timeout_new ==
    \E d \in Durations :
        /\ pc = "idle"
        /\ now + d <= MaxNow
        /\ IF d # 0
           THEN TimeoutCall("Timeout", <<d>>, Timeout_start([start |-> 0, duration |-> 0], d, now),
                            [at |-> now, D |-> d, forced |-> FALSE, touched |-> FALSE])
           ELSE /\ timeout' = [start |-> 0, duration |-> 0]
                /\ hist' = [at |-> 0, D |-> 0, forced |-> FALSE, touched |-> FALSE]
                /\ last' = Outcome("Timeout", <<d>>, FALSE, E_OK, "ok", <<>>, FALSE)
                /\ UNCHANGED <<dynlib, now, spi, ra02, chip, pc>>

Timeout_start_call ==
    \E d \in Durations :
        /\ pc = "idle"
        /\ now + d <= MaxNow
        /\ TimeoutCall("start", <<d>>, Timeout_start(timeout, d, now),
                       [at |-> now, D |-> d, forced |-> FALSE, touched |-> FALSE])

Timeout_restart_call ==
    /\ pc = "idle"
    /\ now + timeout.duration <= MaxNow
    /\ TimeoutCall("restart", NoArg, Timeout_restart(timeout, now),
                   [hist EXCEPT !.at = now, !.forced = FALSE])

Timeout_is_expired_call ==
    /\ pc = "idle"
    /\ IF DynamicLibrary_getattr(dynlib)
       THEN last' = Outcome("is_expired", NoArg, TRUE, E_OK, "ok",
                            <<Timeout_is_expired(timeout, now)>>, FALSE)
       ELSE last' = Raised("is_expired", NoArg)
    /\ UNCHANGED <<dynlib, now, spi, ra02, chip, timeout, hist, pc>>

\* Timeout.expire: by the caller, or by another actor that shares the
\* Timeout while the caller is blocked in recv
Timeout_expire_call ==
    /\ IF DynamicLibrary_getattr(dynlib)
       THEN /\ timeout' = Timeout_expire(timeout, now)
            /\ hist' = [hist EXCEPT !.forced = TRUE, !.touched = TRUE]
            /\ last' = IF pc = "idle" THEN Done("expire", NoArg) ELSE last
       ELSE /\ UNCHANGED <<timeout, hist>>
            /\ last' = IF pc = "idle" THEN Raised("expire", NoArg) ELSE last
    /\ UNCHANGED <<dynlib, now, spi, ra02, chip, pc>>

\* one millisecond passes
Tick ==
    /\ now < MaxNow
    /\ now' = now + 1
    /\ UNCHANGED <<dynlib, spi, ra02, chip, timeout, hist, pc, last>>

-----------------------------------------------------------------------------
(* Ra02.recv                                                               *)

\* bytes(buf): the whole MAX_PAYLOAD-sized buffer, padding included.
Ra02_recv_result_padded(buf, size) == buf

\* bytes(buf[:size.value]): a slice stops at the buffer's end
Ra02_recv_result(buf, size) == SubSeq(buf, 1, Min(size, Len(buf)))

Pending(op) == Outcome(op, NoArg, TRUE, E_OK, "pending", <<>>, TRUE)

\* recv is called: ra02_recv switches the chip to Rx and starts polling
Ra02_recv_call ==
    \E fault \in BOOLEAN :
        LET r == ra02_recv_enter(World, fault)
        IN  /\ pc = "idle"
            /\ IF ~DynamicLibrary_getattr(dynlib)
               THEN /\ last' = Raised("recv", NoArg)
                    /\ UNCHANGED <<spi, ra02, chip, pc>>
               ELSE IF r.code # E_OK
               THEN /\ last' = Checked("recv", NoArg, r)
                    /\ SetWorld(r.w)
                    /\ UNCHANGED pc
               ELSE /\ last' = Pending("recv")
                    /\ SetWorld(r.w)
                    /\ pc' = "recv"
            /\ UNCHANGED <<dynlib, now, timeout, hist>>

\* one iteration of ra02_recv's loop; when it ends the loop, recv's
\* error_check and return statement
Ra02_recv_poll ==
    LET p == ra02_recv_poll(World, timeout, now, MAX_PAYLOAD)
    IN  /\ pc = "recv"
        /\ SetWorld(p.w)
        /\ IF p.done
           THEN /\ pc' = "idle"
                /\ last' = [Outcome("recv", NoArg, TRUE, p.code, error_check(p.code),
                                    IF error_check(p.code) = "ok"
                                    THEN Ra02_recv_result(p.buf, p.size)
                                    ELSE <<>>,
                                    TRUE)
                            EXCEPT !.buf = p.buf, !.size = p.size,
                                   !.expired = Timeout_is_expired(timeout, now)]
           ELSE UNCHANGED <<pc, last>>
        /\ UNCHANGED <<dynlib, now, timeout, hist>>

\* a packet arrives while the chip listens
Chip_rx_done ==
    \E data \in Payloads :
        /\ chip.mode = "rx"
        /\ chip' = [chip EXCEPT !.fifo_rx = data, !.irq = @ \cup {"payload_ready"}]
        /\ UNCHANGED <<dynlib, now, spi, ra02, timeout, hist, pc, last>>

\* a packet fails its integrity check while the chip listens
Chip_crc_error ==
    /\ chip.mode = "rx"
    /\ "crc_error" \notin chip.irq
    /\ chip' = [chip EXCEPT !.irq = @ \cup {"crc_error"}]
    /\ UNCHANGED <<dynlib, now, spi, ra02, timeout, hist, pc, last>>

-----------------------------------------------------------------------------
(* Specifications                                                          *)

Setup == LoadLibrary \/ Spi_init \/ Ra02_init

Lifecycle ==
    \/ Setup \/ Spi_deinit \/ Spi_del \/ Ra02_deinit \/ Ra02_del
    \/ Ra02_reset \/ Ra02_sleep

Next ==
    \/ Lifecycle \/ ErrorCheck \/ Spi_transceive
    \/ Ra02_get_power \/ Ra02_get_rssi \/ Ra02_poll_irq_flags

Spec == Init /\ [][Next]_vars

SendNext == Setup \/ Ra02_sleep \/ Ra02_send

SendSpec == Init /\ [][SendNext]_vars

CfgNext == Setup \/ Ra02_set

CfgSpec == Init /\ [][CfgNext]_vars

TimeoutNext ==
    \/ LoadLibrary \/ Tick \/ Timeout_new \/ Timeout_start_call
    \/ Timeout_restart_call \/ Timeout_is_expired_call \/ Timeout_expire_call

TimeoutSpec == Init /\ [][TimeoutNext]_vars

\* The state after the documented start-up: ra02.__init__(path),
\* spi = Spi(device), rf = Ra02(spi), all three without error.
InitReady ==
    /\ dynlib = TRUE
    /\ now = BootMs
    /\ spi = [open |-> TRUE]
    /\ ra02 = [spi |-> TRUE, irq_flags |-> {}]
    /\ chip = [PowerOnChip EXCEPT !.mode = "standby"]
    /\ timeout = [start |-> 0, duration |-> 0]
    /\ hist = [at |-> 0, D |-> 0, forced |-> FALSE, touched |-> FALSE]
    /\ pc = "idle"
    /\ last = Checked("Ra02.init", NoArg, Ret(E_OK, TRUE, World, <<>>))

RecvNext ==
    \/ Tick \/ Timeout_new \/ Timeout_expire_call
    \/ Ra02_recv_call \/ Ra02_recv_poll \/ Chip_rx_done \/ Chip_crc_error

RecvSpec == InitReady /\ [][RecvNext]_vars

\* recv with no incoming transmission: the chip raises no flag.  Time
\* passes and the blocked caller's loop keeps running.
QuietNext ==
    \/ Tick \/ Timeout_new \/ Timeout_expire_call
    \/ Ra02_recv_call \/ Ra02_recv_poll

QuietFair ==
    /\ InitReady /\ [][QuietNext]_vars
    /\ WF_vars(Tick) /\ WF_vars(Ra02_recv_poll)

-----------------------------------------------------------------------------
(* Properties                                                              *)

\* The closed taxonomy of the design document, section 7: code -> kind.
Taxonomy ==
    <<"Failed", "Assert", "Null", "Invalid", "NotImplemented", "Timeout",
      "NoResponse", "Overflow", "Underflow", "Again", "Done", "Corrupt",
      "Busy", "NotFound", "Cancelled", "Empty", "NoMemory", "OutOfBounds">>

TaxonomyKinds == {Taxonomy[c] : c \in 1..Len(Taxonomy)}

\* C1: error_check is a total function of the integer code: it raises
\* nothing iff the code is 0, raises the taxonomy's kind for each code in
\* 1..18 (distinct codes, distinct kinds), and raises the separate
\* InvalidErrorCodeException for every other code.
C1_ErrorCheckTotal ==
    /\ last.op = "error_check" =>
        /\ (last.outcome = "ok") <=> (last.code = 0)
        /\ last.code \in 1..18 => last.outcome = Taxonomy[last.code]
        /\ last.code \notin 0..18 =>
            /\ last.outcome = "InvalidErrorCode"
            /\ last.outcome \notin TaxonomyKinds
    /\ \A a, b \in 1..18 : a # b => error_check(a) # error_check(b)

C1_Witness ==
    /\ last.op = "error_check"
    /\ last.code = ProbeCode
    /\ last.outcome = "InvalidErrorCode"

\* C2: no operation of Spi or Ra02 completes normally after the library
\* call it made returned a non-zero code: that code's kind reaches the caller.
C2_NoErrorSwallowed ==
    (last.called /\ last.code # E_OK) =>
        /\ last.outcome # "ok"
        /\ last.code \in 1..18 => last.outcome = Taxonomy[last.code]

\* C3: a send that reaches the driver with more than MAX_PAYLOAD bytes gives
\* OutOfBounds, touches no bus and leaves the chip (mode, transmit buffer) as
\* it was; with at most MAX_PAYLOAD bytes it succeeds or gives one kind of
\* the taxonomy.
C3_SendBounds ==
    [][(last' # last /\ last'.op = "send" /\ last'.called) =>
         IF Len(last'.arg) > MAX_PAYLOAD
         THEN /\ last'.outcome = "OutOfBounds"
              /\ ~last'.io
              /\ chip' = chip
         ELSE last'.outcome \in {"ok"} \cup TaxonomyKinds]_vars

C3_Witness ==
    /\ last.op = "send" /\ last.called
    /\ Len(last.arg) > MAX_PAYLOAD
    /\ last.outcome = "OutOfBounds"
    /\ ra02.spi /\ spi.open /\ chip.mode = "standby"

\* C4: a setter called on an initialised driver with an integer outside the
\* chip's accepted range fails with Invalid before any bus I/O.
C4_OutOfRangeRejected ==
    (last.op \in Setters /\ last.called /\ ra02.spi /\ spi.open
        /\ ~InChipRange(last.op, last.arg)) =>
        /\ last.outcome = "Invalid"
        /\ ~last.io

\* recv came back from its polling loop (not from the switch to Rx)
LoopReturn == last.op = "recv" /\ last.called /\ Len(last.buf) = MAX_PAYLOAD

RxFlags == {"payload_ready", "crc_error"}

\* C5: when the last poll of a recv saw payload-ready, recv gives the
\* payload, also when the timeout was expired in that iteration; Timeout comes
\* only from an iteration that saw neither payload-ready nor the CRC flag.
C5_ReadyBeforeExpiry ==
    LoopReturn =>
        /\ "payload_ready" \in ra02.irq_flags =>
            /\ last.outcome = "ok"
            /\ last.value = SubSeq(chip.fifo_rx, 1, Len(last.value))
            /\ Len(last.value) = Min(Len(chip.fifo_rx), MAX_PAYLOAD)
        /\ last.outcome = "Timeout" => ra02.irq_flags \cap RxFlags = {}

C5_Witness ==
    /\ LoopReturn
    /\ "payload_ready" \in ra02.irq_flags
    /\ last.expired
    /\ last.outcome = "ok"
    /\ Len(last.value) > 0

\* C6: a successful recv gives exactly the first size bytes of the receive
\* buffer, size being what the library wrote back, and never more than
\* MAX_PAYLOAD bytes; a failed recv gives no payload.
C6_ExactLength ==
    last.op = "recv" =>
        IF last.outcome = "ok"
        THEN /\ Len(last.value) <= MAX_PAYLOAD
             /\ last.size <= MAX_PAYLOAD => Len(last.value) = last.size
             /\ last.size > MAX_PAYLOAD => Len(last.value) = MAX_PAYLOAD
             /\ last.value = SubSeq(last.buf, 1, Len(last.value))
        ELSE last.value = <<>>

C6_Witness ==
    /\ last.op = "recv" /\ last.outcome = "ok"
    /\ 0 < last.size /\ last.size < MAX_PAYLOAD
    /\ Len(last.value) = last.size

\* C7: a Timeout started (or restarted) at hist.at with duration hist.D > 0
\* reports expired exactly when now - hist.at >= hist.D; restart keeps D and
\* moves the start to the instant of the call; after expire it reports
\* expired whatever the elapsed time.
C7_TimeoutMonotone ==
    hist.D > 0 =>
        IF hist.forced
        THEN Timeout_is_expired(timeout, now)
        ELSE /\ Timeout_is_expired(timeout, now) <=> (now - hist.at >= hist.D)
             /\ timeout = [start |-> hist.at, duration |-> hist.D]

C7_Witness ==
    /\ last.op = "restart" /\ last.called
    /\ hist.D > 0 /\ ~hist.forced
    /\ now - hist.at >= hist.D
    /\ Timeout_is_expired(timeout, now)

\* C8: a Timeout of duration 0 never reports expired, whatever time passed
\* and however often it was restarted, until expire is called on it; right
\* after expire it reports expired; its state is (start, duration) alone and
\* it reports expired only with duration # 0 and now - start >= duration.
C8_InertTimeout ==
    /\ DOMAIN timeout = {"start", "duration"}
    /\ Timeout_is_expired(timeout, now) =>
        (timeout.duration # 0 /\ now - timeout.start >= timeout.duration)
    /\ hist.D = 0 =>
        /\ ~hist.touched => (~Timeout_is_expired(timeout, now) /\ timeout.duration = 0)
        /\ hist.forced => Timeout_is_expired(timeout, now)

C8_Witness ==
    /\ hist.D = 0 /\ hist.forced
    /\ last.op = "expire"
    /\ Timeout_is_expired(timeout, now)

\* C9: releasing never faults: deinit, called or run on drop, raises nothing
\* whatever was done before.
C9_ReleaseNeverFaults ==
    last.op \in {"Spi.deinit", "Spi.__del__", "Ra02.deinit", "Ra02.__del__"} =>
        last.outcome = "ok"

====
